---- MODULE Spec2Model ----
(***************************************************************************)
(* Model of AudioStream (libAvKys/Plugins/MultiSrc/src/ffmpeg/src/         *)
(* audiostream.cpp): the caps query, packet ingestion, timestamp repair,   *)
(* the audio/video sync estimator, format negotiation, resampler           *)
(* configuration and packet emission.                                      *)
(*                                                                         *)
(* qreal values (seconds) are fixed point integers in units of 1/Scale s;  *)
(* NaN is a distinguished value that every comparison treats as the IEEE   *)
(* rules do (all ordered comparisons with NaN are false).                  *)
(***************************************************************************)
EXTENDS Integers, Sequences, FiniteSets, TLC

\* ------------------------------------------------------------------ bounds
\* frames the decoder delivers in one run
MaxFrames == 25
\* frames the decoder returns for one submitted packet
MaxFramesPerPacket == 2
\* the caller submits a new packet only while fewer frames than this wait
MaxInFlight == 1
\* the Global Clock reads NaN or far away only on the first MaxEarly frames
\* of a run or after AUDIO_DIFF_AVG_NB steady frames, when it may also jitter
MaxEarly == 2
\* frames of the stream that shares the Global Clock with a sibling
ClockFrames == 2
\* frames of the short stream whose caller lets several frames wait
IngestFrames == 3
\* frames (end markers included) the caller of that stream lets wait
IngestWindow == 2

\* --------------------------------------------------------------- constants
AV_NOSYNC_THRESHOLD == 10
SAMPLE_CORRECTION_PERCENT_MAX == 10
AUDIO_DIFF_AVG_NB == 20
\* m_maxData, the depth of the frame queue of AbstractStream
m_maxData == 9
\* AV_NOPTS_VALUE (INT64_MIN in FFmpeg), a value no real timestamp takes
AV_NOPTS_VALUE == -1
\* resolution of the fixed point qreal: values are in 1/Scale seconds
Scale == 1000
\* audioDiffAvgCoef = exp(log(0.01) / 20) = 0.7943..., as CoefNum / CoefDen
CoefNum == 7943
CoefDen == 10000
\* timeBase() of the stream, 1 / TimeBaseDen seconds per tick
TimeBaseDen == 48000
\* the NaN of qreal
NaN == -999999999
\* the frame shapes the decoder delivers: samples per frame, sample rate
NbSamples == {1024}
SampleRates == {48000}
\* AV_CH_LAYOUT_MONO and AV_CH_LAYOUT_STEREO, the channel masks of FFmpeg
AV_CH_LAYOUT_MONO == 4
AV_CH_LAYOUT_STEREO == 3
\* the channel masks a decoder may declare: unknown (0), stereo, mono, 2.1, 5.1
ChannelMasks == {0, AV_CH_LAYOUT_STEREO, AV_CH_LAYOUT_MONO, 11, 63}
\* AVSampleFormat: the packed formats, the planar formats, AV_SAMPLE_FMT_NONE
PackedFormats == {"u8", "s16", "s32", "flt", "dbl", "s64"}
PlanarFormats == {"u8p", "s16p", "s32p", "fltp", "dblp", "s64p"}
AVSampleFormats == PackedFormats \cup PlanarFormats \cup {"none"}
\* index() and id() of the stream, and the number of bits of a channel mask
StreamIndex == 1
StreamId == 7
MaskBits == 6
\* the streams of a run: first timestamp of the container (ticks; frames
\* that carry a timestamp carry start + position), the offset (1/Scale s)
\* the Global Clock keeps behind the audio timeline, and the sample format
\* and channel mask of the codec
Streams == {<<48000, -50, "s16p", AV_CH_LAYOUT_MONO>>, <<4800000, 100, "dbl", 63>>}
\* a jittering clock is for one frame this close to the audio timeline
\* instead (1/Scale s)
Jitters == {0, 1, -1}
\* the times the sibling stream sets the Global Clock to (1/Scale s)
SiblingClocks == {950, 1020, 20000}
\* a desynchronised clock is this far away (1/Scale s)
FarOffsets == {100 * Scale, -(100 * Scale)}

\* ------------------------------------------------------------------- state
VARIABLES
    isValid,            \* AbstractStream::isValid(), fixed at construction
    startPts,           \* first timestamp of the container (environment)
    drift,              \* offset the Global Clock keeps (environment)
    length,             \* frames the container holds (environment)
    window,             \* frames the caller lets wait before the next packet
    codecContext,       \* sample_fmt, channel_layout, sample_rate of the codec
    query,              \* what the last call of caps() returned
    pending,            \* the clock reading of a convert that has not finished
    clock,              \* the Global Clock, as last read or written
    m_pts,              \* tracked next expected timestamp (ticks)
    m_resampleContext,  \* "NULL" or "swr"
    audioDiffCum,
    audioDiffAvgCoef,   \* the decay coefficient, in 1/CoefDen
    audioDiffAvgCount,
    m_clockDiff,
    m_frames,           \* frames handed over by dataEnqueue, oldest first
    receiving,          \* processPacket is inside its receive loop
    decoded,            \* frames the decoder has delivered
    decPos,             \* samples the decoder has delivered
    call,               \* what the last processPacket call did
    streak,             \* latest frames in a row of equal diff and shape
    last                \* what the last processData call did

vars == <<isValid, startPts, drift, length, window, codecContext, query, pending,
          clock, m_pts, m_resampleContext,
          audioDiffCum, audioDiffAvgCoef, audioDiffAvgCount, m_clockDiff,
          m_frames, receiving,
          decoded, decPos, call, streak, last>>

streamVars == <<clock, m_pts, m_resampleContext, audioDiffCum, audioDiffAvgCoef,
                audioDiffAvgCount, m_clockDiff, streak, last>>

envVars == <<isValid, startPts, drift, length, window, codecContext>>

\* ------------------------------------------------------------ qreal helpers
IsNaN(x) == x = NaN

\* a - b on qreal
FSub(a, b) == IF IsNaN(a) \/ IsNaN(b) THEN NaN ELSE a - b

Abs(x) == IF x < 0 THEN -x ELSE x

\* qAbs(x) < t and qAbs(x) >= t; both false for NaN
AbsLess(x, t) == ~IsNaN(x) /\ Abs(x) < t

AbsGeq(x, t) == ~IsNaN(x) /\ Abs(x) >= t

\* C++ integer division and int(): truncation toward zero
TruncDiv(a, b) == IF a >= 0 THEN a \div b ELSE -((-a) \div b)

\* ceiling of a / b for a >= 0, b > 0
CeilDiv(a, b) == (a + b - 1) \div b

\* qBound(min, val, max) == qMax(min, qMin(max, val))
qBound(lo, v, hi) == LET m == IF hi < v THEN hi ELSE v IN IF lo < m THEN m ELSE lo

\* iFrame->pts * timeBase().value(), in 1/Scale s
PtsToTime(t) == (t \div TimeBaseDen) * Scale + ((t % TimeBaseDen) * Scale) \div TimeBaseDen

\* diff + audioDiffAvgCoef * audioDiffCum, the product cut to 1/Scale s
CumUpdate(cum, diff) ==
    IF IsNaN(cum) \/ IsNaN(diff) THEN NaN
    ELSE diff + TruncDiv(audioDiffAvgCoef * cum, CoefDen)

\* avgDiff = audioDiffCum * (1.0 - audioDiffAvgCoef), in 1/(Scale*CoefDen) s
AvgDiff(cum) == cum * (CoefDen - audioDiffAvgCoef)

\* faulty variant: the threshold is one frame duration instead of two
DiffThreshold_OneFrame(nb, rate) ==
    LET n == nb * Scale
    IN  (n \div rate) * CoefDen + CeilDiv((n % rate) * CoefDen, rate)

\* diffThreshold = 2.0 * nb_samples / sample_rate, in 1/(Scale*CoefDen) s,
\* rounded up (an integer avgDiff reaches the threshold iff it reaches this)
DiffThreshold(nb, rate) ==
    LET n == 2 * nb * Scale
    IN  (n \div rate) * CoefDen + CeilDiv((n % rate) * CoefDen, rate)

\* faulty variant: the correction rounded down instead of cut toward zero
SampleCorrection_Floor(diff, rate) == (diff * rate) \div Scale

\* int(diff * iFrame->sample_rate)
SampleCorrection(diff, rate) == TruncDiv(diff * rate, Scale)

minSamplesOf(nb) == TruncDiv(nb * (100 - SAMPLE_CORRECTION_PERCENT_MAX), 100)

\* faulty variant: the upper bound rounded up instead of truncated
maxSamplesOf_RoundUp(nb) == CeilDiv(nb * (100 + SAMPLE_CORRECTION_PERCENT_MAX), 100)

maxSamplesOf(nb) == TruncDiv(nb * (100 + SAMPLE_CORRECTION_PERCENT_MAX), 100)

\* faulty variant: the clamp of line 166 left out
WantedSamples_NoClamp(nb, rate, diff) == nb + SampleCorrection(diff, rate)

\* the clamped compensation target of lines 163-166
WantedSamples(nb, rate, diff) ==
    qBound(minSamplesOf(nb), nb + SampleCorrection(diff, rate), maxSamplesOf(nb))

\* the NULL frame processPacket enqueues at the end of the stream
NullFrame == [null |-> TRUE, seq |-> 0, pts |-> AV_NOPTS_VALUE, nb_samples |-> 0,
              sample_rate |-> 0, format |-> "none", channel_layout |-> 0]

\* an AkAudioCaps that was never filled in
NoCaps == [valid |-> FALSE, format |-> "SampleFormat_none", bps |-> 0,
           channels |-> 0, rate |-> 0, layout |-> "Layout_none", samples |-> 0,
           align |-> FALSE]

\* no convert is between its reading of the clock and its end
NoRead == [active |-> FALSE, reading |-> 0]

\* AkPacket(), the invalid packet convert returns on failure
EmptyPacket == [valid |-> FALSE, caps |-> NoCaps, pts |-> 0, timeBase |-> 0,
                index |-> 0, id |-> 0]

NoCall == [packet |-> "none", valid |-> FALSE, sent |-> FALSE, sendOk |-> FALSE,
           pulls |-> 0, frames |-> 0, eos |-> 0]

NoFrame == [done |-> FALSE, seq |-> 0, framePts |-> AV_NOPTS_VALUE, pts |-> 0,
            nb_samples |-> 0, sample_rate |-> 0, format |-> "none",
            channel_layout |-> 0, reading |-> 0, diff |-> 0,
            preCount |-> 0, target |-> FALSE,
            wantedSamples |-> 0, unclamped |-> 0,
            compReq |-> FALSE, compDelta |-> 0,
            compDist |-> 0, compOnNull |-> FALSE,
            result |-> "none", cfgAttempted |-> FALSE,
            clockWritten |-> FALSE, oStream |-> 0, frameSent |-> 0,
            signals |-> <<>>,
            packet |-> EmptyPacket]

\* ------------------------------------------------- formats and layouts
\* av_get_packed_sample_fmt: the packed format of a planar one, a packed
\* format itself, AV_SAMPLE_FMT_NONE for anything else
av_get_packed_sample_fmt(f) ==
    CASE f = "u8p" -> "u8" [] f = "s16p" -> "s16" [] f = "s32p" -> "s32"
      [] f = "fltp" -> "flt" [] f = "dblp" -> "dbl" [] f = "s64p" -> "s64"
      [] f \in PackedFormats -> f
      [] OTHER -> "none"

\* av_get_bytes_per_sample
av_get_bytes_per_sample(f) ==
    CASE f \in {"u8", "u8p"} -> 1 [] f \in {"s16", "s16p"} -> 2
      [] f \in {"s32", "s32p", "flt", "fltp"} -> 4
      [] f \in {"dbl", "dblp", "s64", "s64p"} -> 8
      [] OTHER -> 0

\* av_get_channel_layout_nb_channels: the bits set in the mask
av_get_channel_layout_nb_channels(mask) ==
    Cardinality({i \in 0..(MaskBits - 1) : (mask \div (2 ^ i)) % 2 = 1})

\* the table sampleFormats of lines 33-45
sampleFormats ==
    "u8" :> "SampleFormat_u8" @@ "s16" :> "SampleFormat_s16"
    @@ "s32" :> "SampleFormat_s32" @@ "flt" :> "SampleFormat_flt"

\* the table channelLayouts of lines 49-59
channelLayouts ==
    AV_CH_LAYOUT_MONO :> "Layout_mono" @@ AV_CH_LAYOUT_STEREO :> "Layout_stereo"

\* QMap::value(key, defaultValue)
MapValue(map, k, default) == IF k \in DOMAIN map THEN map[k] ELSE default

\* QMap::key(value, defaultKey)
MapKey(map, v, default) ==
    IF \E k \in DOMAIN map : map[k] = v
    THEN CHOOSE k \in DOMAIN map : map[k] = v
    ELSE default

\* faulty variant: the channel layout of the frame is kept whatever it is
oLayout_KeepsInput(mask) == mask

\* oLayout of convert, lines 189-191
oLayout(mask) == IF mask \in DOMAIN channelLayouts THEN mask ELSE AV_CH_LAYOUT_STEREO

\* oFormat of convert, lines 194-196
oFormat(iFormat) ==
    LET packed == av_get_packed_sample_fmt(iFormat)
    IN  IF packed \in DOMAIN sampleFormats THEN packed ELSE "flt"

\* faulty variant: the packet announces the sample count of the input frame
PacketCaps_InputSamples(frame, wantedSamples) ==
    [valid    |-> TRUE,
     format   |-> MapValue(sampleFormats, oFormat(frame.format), "SampleFormat_none"),
     bps      |-> 8 * av_get_bytes_per_sample(oFormat(frame.format)),
     channels |-> av_get_channel_layout_nb_channels(oLayout(frame.channel_layout)),
     rate     |-> frame.sample_rate,
     layout   |-> MapValue(channelLayouts, oLayout(frame.channel_layout), "Layout_none"),
     samples  |-> frame.nb_samples,
     align    |-> FALSE]

\* the caps convert gives the packet, lines 252-259
PacketCaps(frame, wantedSamples) ==
    [valid    |-> TRUE,
     format   |-> MapValue(sampleFormats, oFormat(frame.format), "SampleFormat_none"),
     bps      |-> 8 * av_get_bytes_per_sample(oFormat(frame.format)),
     channels |-> av_get_channel_layout_nb_channels(oLayout(frame.channel_layout)),
     rate     |-> frame.sample_rate,
     layout   |-> MapValue(channelLayouts, oLayout(frame.channel_layout), "Layout_none"),
     samples  |-> wantedSamples,
     align    |-> FALSE]

\* ---------------------------------------------------------- the sync step
\* swr_set_compensation: libswresample rejects a NULL context; a configured
\* one accepts or rejects (ok)
swr_set_compensation(ctx, ok) == ctx # "NULL" /\ ok

\* !qIsNaN(diff) && qAbs(diff) < AV_NOSYNC_THRESHOLD
InSync(diff) == ~IsNaN(diff) /\ AbsLess(diff, AV_NOSYNC_THRESHOLD * Scale)

\* faulty variant: the filter still counts a measure when it holds 20
NotEnoughMeasures_Inclusive(count) == count <= AUDIO_DIFF_AVG_NB

\* faulty variant: the filter is taken to be full one measure early
NotEnoughMeasures_OneEarly(count) == count < AUDIO_DIFF_AVG_NB - 1

\* audioDiffAvgCount < AUDIO_DIFF_AVG_NB: not enough measures yet
NotEnoughMeasures(count) == count < AUDIO_DIFF_AVG_NB

\* faulty variant: the clock is corrected on any drift at all
HardSet_AnyDrift(diff) == ~IsNaN(diff) /\ Abs(diff) > 0

\* faulty variant: the test written as "not below the threshold", true of NaN
HardSet_NotBelow(diff) == ~(~IsNaN(diff) /\ Abs(diff) < AV_NOSYNC_THRESHOLD * Scale)

\* faulty variant: qAbs forgotten, a clock far ahead of the frame is not corrected
HardSet_NoAbs(diff) == ~IsNaN(diff) /\ diff >= AV_NOSYNC_THRESHOLD * Scale

\* qAbs(diff) >= AV_NOSYNC_THRESHOLD: the Global Clock is set to pts
HardSet(diff) == AbsGeq(diff, AV_NOSYNC_THRESHOLD * Scale)

\* lines 145-182 of convert: the new filter state, the output sample count,
\* the compensation request made, and whether the request was rejected
SyncStep(cum, count, ctx, diff, nb, rate, compOk) ==
    IF InSync(diff)
    THEN LET c == CumUpdate(cum, diff)
         IN  IF NotEnoughMeasures(count)
             THEN [cum |-> c, count |-> count + 1, wantedSamples |-> nb,
                   unclamped |-> nb,
                   target |-> FALSE, compReq |-> FALSE, compDelta |-> 0,
                   compDist |-> 0, rejected |-> FALSE]
             ELSE IF Abs(AvgDiff(c)) >= DiffThreshold(nb, rate)
                  THEN LET w == WantedSamples(nb, rate, diff)
                       IN  [cum |-> c, count |-> count, wantedSamples |-> w,
                            unclamped |-> nb + SampleCorrection(diff, rate),
                            target |-> TRUE, compReq |-> (w # nb),
                            compDelta |-> IF w # nb THEN w - nb ELSE 0,
                            compDist |-> IF w # nb THEN w ELSE 0,
                            rejected |-> (w # nb /\ ~swr_set_compensation(ctx, compOk))]
                  ELSE [cum |-> c, count |-> count, wantedSamples |-> nb,
                        unclamped |-> nb,
                        target |-> FALSE, compReq |-> FALSE, compDelta |-> 0,
                        compDist |-> 0, rejected |-> FALSE]
    ELSE [cum |-> 0, count |-> 0, wantedSamples |-> nb,
          unclamped |-> nb,
          target |-> FALSE, compReq |-> FALSE, compDelta |-> 0,
          compDist |-> 0, rejected |-> FALSE]

\* the first call of convert the resampler library fails, if any:
\* swr_set_compensation, swr_alloc_set_opts, avcodec_fill_audio_frame,
\* swr_convert_frame (a call convert does not reach cannot fail)
LibOutcomes == {"ok", "compensation", "configure", "fill", "convert"}

\* AudioStream::convert on a frame whose (repaired) timestamp is used, with
\* the clock reading and the answers of the resampler library as inputs
convert(used, frame, reading, lib) ==
    LET pts  == PtsToTime(used)
        diff == FSub(pts, reading)
        s    == SyncStep(audioDiffCum, audioDiffAvgCount, m_resampleContext,
                         diff, frame.nb_samples, frame.sample_rate,
                         lib # "compensation")
        hard == HardSet(diff)
        res  == IF s.rejected THEN "compensation"
                ELSE IF lib = "configure" THEN "configure"
                ELSE IF lib = "fill" THEN "fill"
                ELSE IF lib = "convert" THEN "convert"
                ELSE "ok"
    IN  [sync      |-> s,
         pts       |-> pts,
         diff      |-> diff,
         result    |-> res,
         clock     |-> IF ~s.rejected /\ hard THEN pts ELSE reading,
         clockWritten |-> ~s.rejected /\ hard,
         clockDiff |-> IF s.rejected THEN m_clockDiff ELSE diff,
         cfgAttempted |-> ~s.rejected,
         context   |-> IF s.rejected THEN m_resampleContext
                       ELSE IF lib # "configure" THEN "swr" ELSE "NULL",
         packet    |-> IF res = "ok"
                       THEN [valid |-> TRUE,
                             caps |-> PacketCaps(frame, s.wantedSamples),
                             pts |-> used, timeBase |-> TimeBaseDen,
                             index |-> StreamIndex, id |-> StreamId]
                       ELSE EmptyPacket]

\* faulty variant: the tracked timestamp replaces the frame's own as well
UsedPts_AlwaysTracked(framePts, tracked) == tracked

\* frame->pts != AV_NOPTS_VALUE ? frame->pts : m_pts
UsedPts(framePts, tracked) == IF framePts # AV_NOPTS_VALUE THEN framePts ELSE tracked

\* m_pts = frame->pts + frame->nb_samples
NextPts(used, nb) == used + nb

\* frames processData has handled
Processed == decoded - Len(SelectSeq(m_frames, LAMBDA f : ~f.null))

\* what the running Global Clock may read when a frame of time pts arrives
ClockReadings(pts) ==
    {pts - drift}
    \cup (IF Processed < MaxEarly \/ streak >= AUDIO_DIFF_AVG_NB
          THEN {NaN} \cup {pts - f : f \in FarOffsets}
          ELSE {})
    \cup (IF streak >= AUDIO_DIFF_AVG_NB
          THEN {pts - j : j \in Jitters}
          ELSE {})

\* ------------------------------------------------------------------ actions
Init ==
    /\ isValid \in BOOLEAN
    /\ \E st \in Streams, rate \in SampleRates :
         /\ startPts = st[1]
         /\ drift = st[2]
         /\ codecContext = [sample_fmt |-> st[3], channel_layout |-> st[4],
                            sample_rate |-> rate]
    /\ query = NoCaps
    /\ pending = NoRead
    /\ length = MaxFrames
    /\ window = MaxInFlight
    /\ clock = 0
    /\ m_pts = 0
    /\ m_resampleContext = "NULL"
    /\ audioDiffCum = 0
    /\ audioDiffAvgCoef = CoefNum
    /\ audioDiffAvgCount = 0
    /\ m_clockDiff = 0
    /\ m_frames = <<>>
    /\ receiving = FALSE
    /\ decoded = 0
    /\ decPos = 0
    /\ call = NoCall
    /\ streak = 0
    /\ last = NoFrame

\* AudioStream::caps: the caps the stream advertises, from the codec context
caps ==
    /\ query' =
         LET iFormat       == codecContext.sample_fmt
             packed        == av_get_packed_sample_fmt(iFormat)
             format        == IF packed \in DOMAIN sampleFormats THEN packed ELSE "flt"
             layout        == MapValue(channelLayouts, codecContext.channel_layout,
                                       "Layout_stereo")
             channelLayout == MapKey(channelLayouts, layout, AV_CH_LAYOUT_STEREO)
         IN  [valid    |-> TRUE,
              format   |-> MapValue(sampleFormats, format, "SampleFormat_none"),
              bps      |-> 8 * av_get_bytes_per_sample(format),
              channels |-> av_get_channel_layout_nb_channels(channelLayout),
              rate     |-> codecContext.sample_rate,
              layout   |-> layout,
              samples  |-> 0,
              align    |-> FALSE]
    /\ UNCHANGED <<m_frames, receiving, decoded, decPos, call>>
    /\ UNCHANGED streamVars
    /\ UNCHANGED <<envVars, pending>>

\* AbstractStream::dataEnqueue: waits while the queue holds m_maxData frames
dataEnqueue(frame) ==
    /\ Len(m_frames) < m_maxData
    /\ m_frames' = Append(m_frames, frame)

\* processPacket on a stream that is not valid: returns at once
ProcessPacketInvalid ==
    /\ ~isValid
    /\ ~receiving
    /\ \E p \in {"null", "data"} :
         call' = [NoCall EXCEPT !.packet = p]
    /\ UNCHANGED <<m_frames, receiving, decoded, decPos>>
    /\ UNCHANGED streamVars
    /\ UNCHANGED <<envVars, query, pending>>

\* faulty variant: the return after the end marker is missing, the call goes on to
\* the receive loop
ProcessPacketNull_NoReturn ==
    /\ isValid
    /\ ~receiving
    /\ Len(m_frames) < window
    /\ Len(m_frames) < m_maxData
    /\ m_frames' = Append(m_frames, NullFrame)
    /\ receiving' = TRUE
    /\ call' = [NoCall EXCEPT !.packet = "null", !.valid = TRUE, !.eos = 1]
    /\ UNCHANGED <<decoded, decPos>>
    /\ UNCHANGED streamVars
    /\ UNCHANGED <<envVars, query, pending>>

\* processPacket(NULL): the end marker goes straight to the frame queue
ProcessPacketNull ==
    /\ isValid
    /\ ~receiving
    /\ Len(m_frames) < window
    /\ dataEnqueue(NullFrame)
    /\ call' = [NoCall EXCEPT !.packet = "null", !.valid = TRUE, !.eos = 1]
    /\ UNCHANGED <<receiving, decoded, decPos>>
    /\ UNCHANGED streamVars
    /\ UNCHANGED <<envVars, query, pending>>

\* processPacket(packet) when avcodec_send_packet fails
ProcessPacketSendFail ==
    /\ isValid
    /\ ~receiving
    /\ call' = [NoCall EXCEPT !.packet = "data", !.valid = TRUE, !.sent = TRUE]
    /\ UNCHANGED <<m_frames, receiving, decoded, decPos>>
    /\ UNCHANGED streamVars
    /\ UNCHANGED <<envVars, query, pending>>

\* processPacket(packet) when avcodec_send_packet succeeds: enter the loop
ProcessPacketSend ==
    /\ isValid
    /\ ~receiving
    /\ Len(m_frames) < window
    /\ receiving' = TRUE
    /\ call' = [NoCall EXCEPT !.packet = "data", !.valid = TRUE, !.sent = TRUE,
                              !.sendOk = TRUE]
    /\ UNCHANGED <<m_frames, decoded, decPos>>
    /\ UNCHANGED streamVars
    /\ UNCHANGED <<envVars, query, pending>>

\* faulty variant: the loop is left after the first frame
ReceiveFrame_BreaksLoop ==
    /\ receiving
    /\ call.frames < MaxFramesPerPacket
    /\ decoded < length
    /\ Len(m_frames) < window
    /\ \E p \in {AV_NOPTS_VALUE, startPts + decPos}, nb \in NbSamples, rate \in SampleRates :
         /\ dataEnqueue([null |-> FALSE, seq |-> decoded + 1, pts |-> p,
                         nb_samples |-> nb, sample_rate |-> rate,
                         format |-> codecContext.sample_fmt,
                         channel_layout |-> codecContext.channel_layout])
         /\ decPos' = decPos + nb
    /\ decoded' = decoded + 1
    /\ call' = [call EXCEPT !.pulls = @ + 1, !.frames = @ + 1]
    /\ receiving' = FALSE
    /\ UNCHANGED streamVars
    /\ UNCHANGED <<envVars, query, pending>>

\* one turn of the loop: avcodec_receive_frame returns a frame, dataEnqueue
ReceiveFrame ==
    /\ receiving
    /\ call.frames < MaxFramesPerPacket
    /\ decoded < length
    /\ Len(m_frames) < window
    /\ \E p \in {AV_NOPTS_VALUE, startPts + decPos}, nb \in NbSamples, rate \in SampleRates :
         /\ dataEnqueue([null |-> FALSE, seq |-> decoded + 1, pts |-> p,
                         nb_samples |-> nb, sample_rate |-> rate,
                         format |-> codecContext.sample_fmt,
                         channel_layout |-> codecContext.channel_layout])
         /\ decPos' = decPos + nb
    /\ decoded' = decoded + 1
    /\ call' = [call EXCEPT !.pulls = @ + 1, !.frames = @ + 1]
    /\ UNCHANGED receiving
    /\ UNCHANGED streamVars
    /\ UNCHANGED <<envVars, query, pending>>

\* the last turn of the loop: avcodec_receive_frame fails, the loop breaks
ReceiveEnd ==
    /\ receiving
    /\ receiving' = FALSE
    /\ call' = [call EXCEPT !.pulls = @ + 1]
    /\ UNCHANGED <<m_frames, decoded, decPos>>
    /\ UNCHANGED streamVars
    /\ UNCHANGED <<envVars, query, pending>>

\* processData on the oldest queued frame, for a clock reading and the
\* answers of the resampler library; when convert does not write the Global
\* Clock, the clock holds kept afterwards
ProcessFrame(reading, lib, kept) ==
    /\ LET frame == Head(m_frames)
           used  == UsedPts(frame.pts, m_pts)
       IN  \E r \in {convert(used, frame, reading, lib)} :
                 /\ audioDiffCum' = r.sync.cum
                 /\ audioDiffAvgCount' = r.sync.count
                 /\ audioDiffAvgCoef' = audioDiffAvgCoef
                 /\ clock' = IF r.clockWritten THEN r.clock ELSE kept
                 /\ m_clockDiff' = r.clockDiff
                 /\ m_resampleContext' = r.context
                 /\ m_pts' = NextPts(used, frame.nb_samples)
                 /\ streak' = IF last.done /\ last.diff = r.diff
                                  /\ last.nb_samples = frame.nb_samples
                                  /\ last.sample_rate = frame.sample_rate
                               THEN streak + 1 ELSE 1
                 /\ last' = [done |-> TRUE, seq |-> frame.seq,
                             framePts |-> frame.pts,
                             pts |-> used,
                             nb_samples |-> frame.nb_samples,
                             sample_rate |-> frame.sample_rate,
                             format |-> frame.format,
                             channel_layout |-> frame.channel_layout,
                             reading |-> reading, diff |-> r.diff,
                             preCount |-> audioDiffAvgCount,
                             target |-> r.sync.target,
                             wantedSamples |-> r.sync.wantedSamples,
                             unclamped |-> r.sync.unclamped,
                             compReq |-> r.sync.compReq,
                             compDelta |-> r.sync.compDelta,
                             compDist |-> r.sync.compDist,
                             compOnNull |-> (r.sync.compReq /\ m_resampleContext = "NULL"),
                             result |-> r.result,
                             cfgAttempted |-> r.cfgAttempted,
                             clockWritten |-> r.clockWritten,
                             oStream |-> 1, frameSent |-> 1,
                             signals |-> <<"oStream", "frameSent">>,
                             packet |-> r.packet]
    /\ m_frames' = Tail(m_frames)
    /\ UNCHANGED <<receiving, decoded, decPos, call>>
    /\ UNCHANGED <<envVars, query>>

\* AudioStream::processData on the oldest queued frame, with nothing else
\* touching the Global Clock while it runs: the clock holds the reading
\* when convert does not write it
processData ==
    /\ m_frames # <<>>
    /\ ~Head(m_frames).null
    /\ ~pending.active
    /\ \E reading \in ClockReadings(PtsToTime(UsedPts(Head(m_frames).pts, m_pts))),
          lib \in LibOutcomes :
         ProcessFrame(reading, lib, reading)
    /\ UNCHANGED pending

\* processData up to the reading of the Global Clock (lines 132-144)
convertRead ==
    /\ m_frames # <<>>
    /\ ~Head(m_frames).null
    /\ ~pending.active
    /\ pending' = [active |-> TRUE, reading |-> clock]
    /\ UNCHANGED <<m_frames, receiving, decoded, decPos, call>>
    /\ UNCHANGED streamVars
    /\ UNCHANGED <<envVars, query>>

\* processData from there to its end (lines 145-268 and 134-137), on the
\* reading taken before
convertFinish ==
    /\ pending.active
    /\ \E lib \in LibOutcomes : ProcessFrame(pending.reading, lib, clock)
    /\ pending' = NoRead

\* Clock::setClock called by the sibling (video) stream
siblingSetClock ==
    /\ \E t \in SiblingClocks : clock' = t
    /\ clock' # clock
    /\ UNCHANGED <<m_pts, m_resampleContext, audioDiffCum, audioDiffAvgCoef,
                   audioDiffAvgCount, m_clockDiff, streak, last>>
    /\ UNCHANGED <<m_frames, receiving, decoded, decPos, call>>
    /\ UNCHANGED <<envVars, query, pending>>

\* the data loop takes the NULL frame: the stream has ended
DataLoopEnd ==
    /\ m_frames # <<>>
    /\ Head(m_frames).null
    /\ m_frames' = Tail(m_frames)
    /\ UNCHANGED <<receiving, decoded, decPos, call>>
    /\ UNCHANGED streamVars
    /\ UNCHANGED <<envVars, query, pending>>

Next ==
    \/ ProcessPacketInvalid
    \/ ProcessPacketNull
    \/ ProcessPacketSendFail
    \/ ProcessPacketSend
    \/ ReceiveFrame
    \/ ReceiveEnd
    \/ processData
    \/ DataLoopEnd

Spec == Init /\ [][Next]_vars

\* ------------------------------------------------- ingestion on a short stream
\* a freshly constructed stream of IngestFrames frames whose caller submits
\* packets as long as the frame queue has room
InitIngest ==
    /\ isValid \in BOOLEAN
    /\ \E st \in Streams, rate \in SampleRates :
         /\ startPts = st[1]
         /\ drift = st[2]
         /\ codecContext = [sample_fmt |-> st[3], channel_layout |-> st[4],
                            sample_rate |-> rate]
    /\ query = NoCaps
    /\ pending = NoRead
    /\ length = IngestFrames
    /\ window = IngestWindow
    /\ clock = 0
    /\ m_pts = 0
    /\ m_resampleContext = "NULL"
    /\ audioDiffCum = 0
    /\ audioDiffAvgCoef = CoefNum
    /\ audioDiffAvgCount = 0
    /\ m_clockDiff = 0
    /\ m_frames = <<>>
    /\ receiving = FALSE
    /\ decoded = 0
    /\ decPos = 0
    /\ call = NoCall
    /\ streak = 0
    /\ last = NoFrame

\* ------------------------------------------ the Global Clock shared with a sibling
\* a freshly constructed stream of ClockFrames frames starting at 1.000 s;
\* processData is taken in two steps, around which the sibling stream may
\* set the Global Clock
InitClock ==
    /\ isValid \in BOOLEAN
    /\ startPts = 48000
    /\ drift = 0
    /\ codecContext = [sample_fmt |-> "s16", channel_layout |-> AV_CH_LAYOUT_STEREO,
                       sample_rate |-> 48000]
    /\ query = NoCaps
    /\ pending = NoRead
    /\ length = ClockFrames
    /\ window = MaxInFlight
    /\ clock = 0
    /\ m_pts = 0
    /\ m_resampleContext = "NULL"
    /\ audioDiffCum = 0
    /\ audioDiffAvgCoef = CoefNum
    /\ audioDiffAvgCount = 0
    /\ m_clockDiff = 0
    /\ m_frames = <<>>
    /\ receiving = FALSE
    /\ decoded = 0
    /\ decPos = 0
    /\ call = NoCall
    /\ streak = 0
    /\ last = NoFrame

NextClock ==
    \/ ProcessPacketInvalid
    \/ ProcessPacketNull
    \/ ProcessPacketSendFail
    \/ ProcessPacketSend
    \/ ReceiveFrame
    \/ ReceiveEnd
    \/ convertRead
    \/ convertFinish
    \/ siblingSetClock
    \/ DataLoopEnd

SpecClock == InitClock /\ [][NextClock]_vars

\* the receive loop of processPacket keeps running: once entered, its next
\* turn (a frame, or the failing pull that ends it) is eventually taken
NextIngest == Next \/ caps

SpecIngest == InitIngest /\ [][NextIngest]_vars /\ WF_vars(ReceiveFrame \/ ReceiveEnd)

\* ------------------------------------------- the sync step on its own inputs
\* convert applied once to a frame that meets a full filter: the frame shape,
\* the diff, the filter sum and the resampler context range over these sets
SyncNbSamples == {1, 7, 10, 11, 1000, 1024, 1152, 4096}

SyncSampleRates == {8000, 44100, 48000}

SyncDiffs == {-9999, -100, -50, -7, -5, -3, -1, 0, 1, 3, 5, 7, 50, 100, 9999}

SyncCums == {-3000, -400, 0, 400, 3000}

InitSync ==
    /\ isValid = TRUE
    /\ startPts = 0
    /\ drift \in SyncDiffs
    /\ length = AUDIO_DIFF_AVG_NB + 1
    /\ window = MaxInFlight
    /\ clock = 0
    /\ m_pts = AUDIO_DIFF_AVG_NB * 1024
    /\ m_resampleContext \in {"NULL", "swr"}
    /\ audioDiffCum \in SyncCums
    /\ audioDiffAvgCoef = CoefNum
    /\ audioDiffAvgCount = AUDIO_DIFF_AVG_NB
    /\ m_clockDiff = 0
    /\ \E nb \in SyncNbSamples, rate \in SyncSampleRates :
         /\ codecContext = [sample_fmt |-> "s16", channel_layout |-> AV_CH_LAYOUT_STEREO,
                            sample_rate |-> rate]
         /\ m_frames = <<[null |-> FALSE, seq |-> AUDIO_DIFF_AVG_NB + 1,
                          pts |-> AV_NOPTS_VALUE,
                          nb_samples |-> nb, sample_rate |-> rate,
                          format |-> "s16", channel_layout |-> AV_CH_LAYOUT_STEREO]>>
    /\ query = NoCaps
    /\ pending = NoRead
    /\ receiving = FALSE
    /\ decoded = AUDIO_DIFF_AVG_NB + 1
    /\ decPos = (AUDIO_DIFF_AVG_NB + 1) * 1024
    /\ call = NoCall
    /\ streak = AUDIO_DIFF_AVG_NB
    /\ last = NoFrame

NextSync == processData

SpecSync == InitSync /\ [][NextSync]_vars

\* ---------------------------------- negotiation on every format and layout
\* a stream whose codec declares any sample format and channel mask, with its
\* first frame pulled and waiting; the frame has the codec's format, layout
\* and rate, or another one (a stream that changes on the way)
CapsSampleRates == {44100, 48000}

InitCaps ==
    /\ isValid = TRUE
    /\ startPts = 48000
    /\ drift = -50
    /\ length = 1
    /\ window = MaxInFlight
    /\ codecContext \in [sample_fmt : AVSampleFormats, channel_layout : ChannelMasks,
                          sample_rate : SampleRates]
    /\ query = NoCaps
    /\ pending = NoRead
    /\ clock = 0
    /\ m_pts = 0
    /\ m_resampleContext = "NULL"
    /\ audioDiffCum = 0
    /\ audioDiffAvgCoef = CoefNum
    /\ audioDiffAvgCount = 0
    /\ m_clockDiff = 0
    /\ \E f \in {codecContext.sample_fmt, "s16", "dblp"},
          l \in {codecContext.channel_layout, AV_CH_LAYOUT_MONO, 63},
          rate \in CapsSampleRates, nb \in NbSamples :
         /\ m_frames = <<[null |-> FALSE, seq |-> 1, pts |-> startPts,
                          nb_samples |-> nb, sample_rate |-> rate,
                          format |-> f, channel_layout |-> l]>>
         /\ decPos = nb
    /\ receiving = FALSE
    /\ decoded = 1
    /\ call = [NoCall EXCEPT !.packet = "data", !.valid = TRUE, !.sent = TRUE,
                             !.sendOk = TRUE, !.pulls = 2, !.frames = 1]
    /\ streak = 0
    /\ last = NoFrame

NextCaps == caps \/ processData

SpecCaps == InitCaps /\ [][NextCaps]_vars

TypeOK ==
    /\ audioDiffAvgCount \in 0..AUDIO_DIFF_AVG_NB
    /\ m_resampleContext \in {"NULL", "swr"}
    /\ Len(m_frames) <= m_maxData

\* =================================================================== claims

\* C1 (as claimed): a frame whose conversion failed makes processData emit
\* no packet and raise no frameSent notification; whatever is emitted is the
\* packet of a successfully converted frame.
C1_NoEmissionOnFailure ==
    (last.done /\ last.result # "ok") => (last.oStream = 0 /\ last.frameSent = 0)

\* C2: a frame whose diff is not NaN, with |diff| < 10.0 s and fewer than 20
\* measures on entry, requests no compensation, keeps wantedSamples equal to
\* the frame's sample count, and increments audioDiffAvgCount by exactly 1.
C2_NoCompensationWhileMeasuring ==
    (last.done /\ ~IsNaN(last.diff) /\ Abs(last.diff) < AV_NOSYNC_THRESHOLD * Scale
       /\ last.preCount < AUDIO_DIFF_AVG_NB)
    => /\ ~last.compReq
       /\ last.wantedSamples = last.nb_samples
       /\ audioDiffAvgCount = last.preCount + 1

\* C2 witness: pts = 1.000 s, clock = 1.050 s, count 0 -> count 1
C2_Witness ==
    /\ last.done
    /\ PtsToTime(last.pts) = 1000 /\ last.reading = 1050 /\ last.diff = -50
    /\ last.preCount = 0 /\ audioDiffAvgCount = 1
    /\ ~last.compReq /\ last.wantedSamples = last.nb_samples

\* C3 (as claimed): whenever a compensation target is computed, the clamped
\* wantedSamples lies between 0.9 and 1.1 times the frame's sample count.
C3_WantedWithinTenPercent ==
    (last.done /\ last.target)
    => /\ 90 * last.nb_samples <= 100 * last.wantedSamples
       /\ 100 * last.wantedSamples <= 110 * last.nb_samples

\* C3 (amended): whenever a compensation target is computed, wantedSamples is
\* at least 0.9 times the sample count rounded down to an integer, and at
\* most 1.1 times the sample count.
C3_WantedWithinTruncatedBounds ==
    (last.done /\ last.target)
    => /\ 90 * last.nb_samples - 100 < 100 * last.wantedSamples
       /\ 100 * last.wantedSamples <= 110 * last.nb_samples

\* C3 witness: a 1024 sample frame whose target was cut to the lower bound
C3_Witness ==
    /\ last.done /\ last.target
    /\ last.nb_samples = 1024 /\ last.diff = -100
    /\ last.wantedSamples = 921

\* C4: a frame whose diff is NaN leaves audioDiffCum = 0 and
\* audioDiffAvgCount = 0, requests no compensation, and does not write the
\* Global Clock (the clock still holds what was read).
C4_NaNResetsWithoutClockWrite ==
    (last.done /\ IsNaN(last.diff))
    => /\ audioDiffCum = 0
       /\ audioDiffAvgCount = 0
       /\ ~last.compReq
       /\ ~last.clockWritten
       /\ clock = last.reading

\* C4 witness: a NaN diff met a full filter and reset it
C4_Witness ==
    /\ last.done /\ IsNaN(last.diff)
    /\ last.preCount = AUDIO_DIFF_AVG_NB
    /\ audioDiffAvgCount = 0 /\ audioDiffCum = 0

\* C5: a frame with |diff| >= 10.0 s resets the filter (audioDiffCum = 0,
\* audioDiffAvgCount = 0) and sets the Global Clock to the frame's pts in
\* seconds, whatever the filter held and whether or not the resample steps
\* that follow succeed.
C5_LargeDiffResetsAndSetsClock ==
    (last.done /\ ~IsNaN(last.diff) /\ Abs(last.diff) >= AV_NOSYNC_THRESHOLD * Scale)
    => /\ audioDiffCum = 0
       /\ audioDiffAvgCount = 0
       /\ last.clockWritten
       /\ clock = PtsToTime(last.pts)

\* C5 witness: pts = 100.0 s, clock = 0.0, full filter before, and the
\* resampler configuration failing afterwards
C5_Witness ==
    /\ last.done
    /\ PtsToTime(last.pts) >= 100 * Scale /\ last.diff = 100 * Scale
    /\ last.preCount = AUDIO_DIFF_AVG_NB
    /\ last.result = "configure"
    /\ clock = PtsToTime(last.pts) /\ audioDiffAvgCount = 0

\* the step is a call of processData
ProcessDataStep == m_frames # <<>> /\ ~Head(m_frames).null /\ m_frames' = Tail(m_frames)

\* C6 (as claimed): from a fresh stream, with every frame at diff = 0.1 s,
\* 1024 samples and 48000 Hz, frames 1..20 request no compensation and keep
\* wantedSamples = 1024, and every later frame requests compensation with
\* wantedSamples = 1127.
C6_ScenarioC ==
    (last.done /\ streak = Processed /\ last.diff = 100
       /\ last.nb_samples = 1024 /\ last.sample_rate = 48000)
    => IF Processed <= AUDIO_DIFF_AVG_NB
       THEN ~last.compReq /\ last.wantedSamples = 1024
       ELSE last.compReq /\ last.wantedSamples = 1127

\* C6 (amended): the same run, with wantedSamples = 1126 from the 21st frame
\* on; the clamp bounds of a 1024 sample frame are 921 and 1126.
C6_ScenarioCAmended ==
    (last.done /\ streak = Processed /\ last.diff = 100
       /\ last.nb_samples = 1024 /\ last.sample_rate = 48000)
    => IF Processed <= AUDIO_DIFF_AVG_NB
       THEN ~last.compReq /\ last.wantedSamples = 1024
       ELSE /\ last.compReq /\ last.target
            /\ last.wantedSamples = 1126
            /\ last.compDelta = 102 /\ last.compDist = 1126
            /\ minSamplesOf(last.nb_samples) = 921
            /\ maxSamplesOf(last.nb_samples) = 1126

\* C6 witness: the 25th frame of the run
C6_Witness ==
    /\ last.done /\ streak = Processed /\ Processed = 25
    /\ last.diff = 100 /\ last.nb_samples = 1024 /\ last.sample_rate = 48000
    /\ last.compReq /\ last.wantedSamples = 1126

\* C7: a frame without a timestamp is given m_pts (0 at construction), a
\* frame with a timestamp keeps it, and after every processed frame, converted
\* or not, m_pts is the used timestamp plus the frame's sample count; a frame
\* without a timestamp that follows another gets that frame's timestamp plus
\* that frame's sample count.
C7_TimestampRepair ==
    /\ [][ProcessDataStep =>
            LET f == Head(m_frames)
            IN  /\ last'.pts = (IF f.pts = AV_NOPTS_VALUE THEN m_pts ELSE f.pts)
                /\ m_pts' = last'.pts + f.nb_samples
                /\ (last.done /\ f.pts = AV_NOPTS_VALUE)
                     => last'.pts = last.pts + last.nb_samples]_vars
    /\ [](m_pts = (IF last.done THEN last.pts + last.nb_samples ELSE 0))

\* C7 witness: after a stamped frame, an unstamped one took the tracked value
\* and its conversion failed
C7_Witness ==
    /\ last.done /\ last.framePts = AV_NOPTS_VALUE
    /\ last.pts = startPts + 1024
    /\ last.result # "ok"
    /\ m_pts = last.pts + last.nb_samples

\* C8 (as claimed): once a frame has left the resampler unconfigured (its
\* swr_alloc_set_opts failed), every later frame attempts the configuration
\* again, whatever the filter state.
C8_ConfigurationRetried ==
    [][(ProcessDataStep /\ last.done /\ m_resampleContext = "NULL")
         => last'.cfgAttempted]_vars

\* C9 (as claimed): the diff of every frame passed to convert is recorded in
\* m_clockDiff, whatever branch convert takes.
C9_ClockDiffRecorded ==
    last.done => m_clockDiff = last.diff

\* the step is a call of processPacket whose decoder submission failed
SendFailStep == call' # call /\ call'.sent /\ ~call'.sendOk

\* the step is a call of processPacket(NULL)
NullPacketStep == call' # call /\ call'.packet = "null"

\* C10 (as claimed): processPacket(NULL) forwards exactly one end marker and
\* never submits to or pulls from the decoder; a packet whose submission
\* fails hands over no frame, pulls nothing, and leaves the sync state and
\* m_pts unchanged.
C10_PacketEdgeCases ==
    /\ [](call.packet = "null" => (call.eos = 1 /\ ~call.sent /\ call.pulls = 0))
    /\ []((call.sent /\ ~call.sendOk) => (call.frames = 0 /\ call.pulls = 0 /\ call.eos = 0))
    /\ [][NullPacketStep => m_frames' = Append(m_frames, NullFrame)]_vars
    /\ [][SendFailStep => (~receiving' /\ UNCHANGED <<m_frames, streamVars>>)]_vars

\* C10 (amended): the same, for a valid stream; on a stream that is not valid
\* processPacket does nothing at all, end marker included.
C10_PacketEdgeCasesValid ==
    /\ []((call.packet = "null" /\ call.valid)
            => (call.eos = 1 /\ ~call.sent /\ call.pulls = 0))
    /\ []((call.packet # "none" /\ ~call.valid)
            => (call.eos = 0 /\ ~call.sent /\ call.pulls = 0 /\ call.frames = 0))
    /\ []((call.sent /\ ~call.sendOk) => (call.frames = 0 /\ call.pulls = 0 /\ call.eos = 0))
    /\ [][(NullPacketStep /\ call'.valid) => m_frames' = Append(m_frames, NullFrame)]_vars
    /\ [][(NullPacketStep /\ ~call'.valid) => UNCHANGED <<m_frames, receiving, streamVars>>]_vars
    /\ [][SendFailStep => (~receiving' /\ UNCHANGED <<m_frames, streamVars>>)]_vars

\* C10 witness: a failed submission after frames were processed, nothing
\* queued, nothing pulled
C10_Witness ==
    /\ call.sent /\ ~call.sendOk /\ call.pulls = 0 /\ call.frames = 0
    /\ last.done /\ audioDiffAvgCount > 0 /\ m_frames = <<>>

\* C12: audioDiffAvgCount stays within 0..20; a processed frame whose diff is
\* not NaN and below 10 s in size adds 1 to it while it is below 20 and leaves
\* it at 20 otherwise; a frame whose diff is NaN or at least 10 s in size
\* sets it and audioDiffCum to 0; nothing else changes the count or the sum,
\* and audioDiffAvgCoef keeps the value the constructor gave it.
C12_CountInvariants ==
    /\ [](audioDiffAvgCount >= 0 /\ audioDiffAvgCount <= AUDIO_DIFF_AVG_NB)
    /\ [][ProcessDataStep =>
            IF ~IsNaN(last'.diff) /\ Abs(last'.diff) < AV_NOSYNC_THRESHOLD * Scale
            THEN audioDiffAvgCount' =
                   (IF audioDiffAvgCount < AUDIO_DIFF_AVG_NB
                    THEN audioDiffAvgCount + 1 ELSE audioDiffAvgCount)
            ELSE audioDiffAvgCount' = 0 /\ audioDiffCum' = 0]_vars
    /\ [][~ProcessDataStep => UNCHANGED <<audioDiffAvgCount, audioDiffCum>>]_vars
    /\ [](audioDiffAvgCoef = CoefNum)
    /\ [][audioDiffAvgCoef' = audioDiffAvgCoef]_vars

\* C12 witness: a frame in sync met the full filter and left the count at 20
C12_Witness ==
    /\ last.done /\ ~IsNaN(last.diff) /\ Abs(last.diff) < AV_NOSYNC_THRESHOLD * Scale
    /\ last.preCount = AUDIO_DIFF_AVG_NB /\ audioDiffAvgCount = AUDIO_DIFF_AVG_NB
    /\ audioDiffCum # 0

\* C13: caps() and convert choose the output format as the packed
\* equivalent of the input format when that is u8, s16, s32 or flt and as flt
\* otherwise, and the output layout as the input layout when it is mono or
\* stereo and as stereo otherwise (bits per sample and channel count
\* following); when the frame has the codec's format, layout and rate, the
\* caps of the packet agree with the caps() query in format, bits per
\* sample, channels, rate, layout and alignment.
C13_Negotiation ==
    LET Format(f) == CASE f \in {"u8", "u8p"} -> "SampleFormat_u8"
                       [] f \in {"s16", "s16p"} -> "SampleFormat_s16"
                       [] f \in {"s32", "s32p"} -> "SampleFormat_s32"
                       [] OTHER -> "SampleFormat_flt"
        Bps(f) == CASE f \in {"u8", "u8p"} -> 8
                    [] f \in {"s16", "s16p"} -> 16
                    [] OTHER -> 32
        Layout(m) == IF m = AV_CH_LAYOUT_MONO THEN "Layout_mono" ELSE "Layout_stereo"
        Channels(m) == IF m = AV_CH_LAYOUT_MONO THEN 1 ELSE 2
        pc == last.packet.caps
    IN  /\ query.valid =>
              /\ query.format = Format(codecContext.sample_fmt)
              /\ query.bps = Bps(codecContext.sample_fmt)
              /\ query.layout = Layout(codecContext.channel_layout)
              /\ query.channels = Channels(codecContext.channel_layout)
              /\ query.rate = codecContext.sample_rate
        /\ (last.done /\ last.packet.valid) =>
              /\ pc.valid
              /\ pc.format = Format(last.format)
              /\ pc.bps = Bps(last.format)
              /\ pc.layout = Layout(last.channel_layout)
              /\ pc.channels = Channels(last.channel_layout)
              /\ pc.rate = last.sample_rate
        /\ (query.valid /\ last.done /\ last.packet.valid
              /\ last.format = codecContext.sample_fmt
              /\ last.channel_layout = codecContext.channel_layout
              /\ last.sample_rate = codecContext.sample_rate) =>
              /\ pc.format = query.format /\ pc.bps = query.bps
              /\ pc.channels = query.channels /\ pc.rate = query.rate
              /\ pc.layout = query.layout /\ pc.align = query.align

\* C13 witness: a codec of planar double samples in 5.1 was queried and a
\* frame of that shape converted: both say 32 bit float, stereo
C13_Witness ==
    /\ codecContext.sample_fmt = "dblp" /\ codecContext.channel_layout = 63
    /\ query.valid /\ query.format = "SampleFormat_flt" /\ query.layout = "Layout_stereo"
    /\ last.done /\ last.packet.valid
    /\ last.format = "dblp" /\ last.channel_layout = 63
    /\ last.sample_rate = codecContext.sample_rate
    /\ last.packet.caps.format = "SampleFormat_flt"
    /\ last.packet.caps.layout = "Layout_stereo"
    /\ last.packet.caps.channels = 2

C15_CorrectionRounded ==
    (last.done /\ last.target) =>
        LET a == last.diff * last.sample_rate
            rounded == IF a >= 0 THEN (2 * a + Scale) \div (2 * Scale)
                       ELSE -((2 * (-a) + Scale) \div (2 * Scale))
        IN  last.unclamped = last.nb_samples + rounded

\* C15 (amended): whenever a compensation target is computed, the target
\* before the clamp is the sample count plus diff * sample rate with its
\* fraction dropped (cut toward zero, for positive and negative diff alike),
\* and wantedSamples is that target clamped to the bounds.
C15_CorrectionTruncated ==
    (last.done /\ last.target) =>
        LET a == last.diff * last.sample_rate
            cut == IF a >= 0 THEN a \div Scale ELSE -((-a) \div Scale)
            lo == (last.nb_samples * 90) \div 100
            hi == (last.nb_samples * 110) \div 100
        IN  /\ last.unclamped = last.nb_samples + cut
            /\ last.wantedSamples =
                  (IF last.unclamped < lo THEN lo
                   ELSE IF last.unclamped > hi THEN hi ELSE last.unclamped)

\* C15 witness: diff = -0.005 s at 44100 Hz is -220.5 samples; the target of
\* a 4096 sample frame is 4096 - 220 = 3876, inside the bounds
C15_Witness ==
    /\ last.done /\ last.target
    /\ last.diff = -5 /\ last.sample_rate = 44100 /\ last.nb_samples = 4096
    /\ last.unclamped = 3876 /\ last.wantedSamples = 3876

\* C16: for a frame with a diff that is not NaN and below 10 s in size that
\* meets a full filter (20 measures): compensation is requested exactly when
\* |avgDiff| >= 2 * nb_samples / sample_rate, avgDiff being
\* audioDiffCum * (1 - audioDiffAvgCoef) after the diff was added,
\* and the clamped wantedSamples differs from nb_samples; the request is for
\* (wantedSamples - nb_samples, wantedSamples); below the threshold
\* wantedSamples stays nb_samples.
C16_CompensationIff ==
    (last.done /\ ~IsNaN(last.diff) /\ Abs(last.diff) < AV_NOSYNC_THRESHOLD * Scale
       /\ last.preCount = AUDIO_DIFF_AVG_NB) =>
        LET avg == Abs(audioDiffCum * (CoefDen - CoefNum))
            q   == avg \div CoefDen
            r   == avg % CoefDen
            g   == 2 * last.nb_samples * Scale - q * last.sample_rate
            \* avg / (Scale * CoefDen) >= 2 * nb_samples / sample_rate
            reached == IF g <= 0 THEN TRUE
                       ELSE IF g > last.sample_rate THEN FALSE
                       ELSE r * last.sample_rate >= g * CoefDen
        IN  /\ last.compReq <=> (reached /\ last.wantedSamples # last.nb_samples)
            /\ last.compReq => /\ last.compDelta = last.wantedSamples - last.nb_samples
                               /\ last.compDist = last.wantedSamples
            /\ ~reached => last.wantedSamples = last.nb_samples
            /\ last.target <=> reached

\* C16 witness: the average is above the threshold but the frame's own diff
\* is 0, so the target is the sample count and nothing is requested
C16_Witness ==
    /\ last.done /\ last.preCount = AUDIO_DIFF_AVG_NB
    /\ last.diff = 0 /\ last.nb_samples = 1024 /\ last.sample_rate = 48000
    /\ audioDiffCum > 2000
    /\ last.target /\ ~last.compReq /\ last.wantedSamples = 1024

\* C17: a processed frame whose diff is not NaN and below 10 s in size does
\* not write the Global Clock (it still holds what convert read); every write
\* is made by a processed frame with a diff of at least 10 s in size and sets
\* the clock to the pts of that frame in seconds; no other step (caps,
\* processPacket and its receive loop, the end of the data loop) changes it.
C17_ClockWrittenOnlyOnDesync ==
    /\ [][ProcessDataStep =>
            /\ (~IsNaN(last'.diff) /\ Abs(last'.diff) < AV_NOSYNC_THRESHOLD * Scale)
                  => (~last'.clockWritten /\ clock' = last'.reading)
            /\ last'.clockWritten
                  => /\ ~IsNaN(last'.diff)
                     /\ Abs(last'.diff) >= AV_NOSYNC_THRESHOLD * Scale
                     /\ clock' = PtsToTime(last'.pts)
            /\ ~last'.clockWritten => clock' = last'.reading]_vars
    /\ [][~ProcessDataStep => clock' = clock]_vars

\* C17 witness: after a caps() query, a frame 100 s behind the clock set the
\* clock to its pts, and a packet was submitted after that
C17_Witness ==
    /\ query.valid
    /\ last.done /\ last.clockWritten /\ last.diff = -(100 * Scale)
    /\ clock = PtsToTime(last.pts) /\ clock # last.reading
    /\ call.sendOk /\ call.frames = 1 /\ decoded = 2

\* C19 (as claimed): whenever convert requests compensation, m_resampleContext
\* is a configured resampler, never NULL, also after frames whose
\* configuration failed while the filter filled up.
C19_NoCompensationOnNull ==
    (last.done /\ last.compReq) => ~last.compOnNull

\* C20 (as claimed): the reading, the decision and the write of one frame are
\* atomic with respect to the sibling stream: whenever convert sets the
\* Global Clock to pts, the value it overwrites differs from pts by at least
\* 10.0 s.
C20_HardSetNotStale ==
    [][(pending.active /\ ~pending'.active /\ last'.clockWritten)
         => (~IsNaN(clock)
             /\ Abs(PtsToTime(last'.pts) - clock) >= AV_NOSYNC_THRESHOLD * Scale)]_vars

\* the step is a turn of the receive loop that pulled a frame
ReceiveStep == receiving /\ call'.frames = call.frames + 1

\* the frames waiting in the queue, end markers left out
Waiting == SelectSeq(m_frames, LAMBDA f : ~f.null)

\* C11: after a successful submission processPacket pulls until the first
\* failing pull and then stops (the failing pull is the last one, and the call
\* ends once the receive loop runs its turns); every pulled frame is handed
\* over, one per pull and in pull order, behind every frame of earlier
\* packets; the frames are processed in that order.
C11_PullLoopFifo ==
    /\ [](call.sendOk => call.pulls = call.frames + (IF receiving THEN 0 ELSE 1))
    /\ [](~call.sendOk => (~receiving /\ call.pulls = 0 /\ call.frames = 0))
    /\ [][ReceiveStep =>
            /\ Len(m_frames') = Len(m_frames) + 1
            /\ m_frames'[Len(m_frames')].seq = decoded + 1
            /\ \A i \in 1..Len(m_frames) : m_frames'[i] = m_frames[i]]_vars
    /\ [](\A i \in 1..Len(Waiting) : Waiting[i].seq = Processed + i)
    /\ [][ProcessDataStep => last'.seq = Processed + 1]_vars
    /\ (receiving ~> ~receiving)

\* C11 witness: a packet of two frames and a packet of one frame were pulled,
\* the second call ended by its second pull; the first frame is processed,
\* the second frame of the first packet waits ahead of the third frame
C11_Witness ==
    /\ ~receiving /\ call.sendOk /\ call.frames = 1 /\ call.pulls = 2
    /\ decoded = 3 /\ Len(Waiting) = 2 /\ last.seq = 1
    /\ Waiting[1].seq = 2 /\ Waiting[2].seq = 3

====
